---- MODULE Spec2Model ----
(***************************************************************************)
(* Williams WPC (Alpha Numeric) driver, src/mame/drivers/wpc_an.cpp.       *)
(*                                                                         *)
(* The state is the wpc_an_state object together with the devices it       *)
(* drives: the main CPU's IRQ and FIRQ input lines, the "cpubank" memory   *)
(* bank, the "fixed" ROM region, the WPC ASIC (protection registers and    *)
(* raw alphanumeric store), the 32 digit outputs and the sound device of   *)
(* the machine configuration (wpcsnd for wpc_an, s11c_bg for wpc_an_dd).   *)
(* One action per handler of the driver.  The devices whose code is in     *)
(* machine/wpc.cpp, audio/wpcsnd.cpp and audio/s11c_bg.cpp are modelled    *)
(* from the design document.                                               *)
(***************************************************************************)
EXTENDS Integers, Sequences, FiniteSets, TLC

VARIABLES
    machine,          \* machine configuration: "wpc_an" or "wpc_an_dd"
    rom_bytes,        \* memregion("maincpu")->bytes()
    m_bankmask,       \* uint8_t m_bankmask
    cpubank,          \* current entry of m_cpubank
    fixed,            \* "fixed" region, at the sampled offsets
    m_ram,            \* uint8_t m_ram[0x3000], at the sampled offsets
    memprotect,       \* m_wpc->memprotect_active()
    memprotect_mask,  \* m_wpc->get_memprotect_mask()
    alpha,            \* m_wpc raw alphanumeric store
    m_digits,         \* output_finder<32> m_digits
    m_vblank_count,   \* uint16_t m_vblank_count
    m_irq_count,      \* uint32_t m_irq_count
    m_vblank_timer,   \* emu_timer* m_vblank_timer
    m_irq_timer,      \* emu_timer* m_irq_timer
    irq_line,         \* M6809_IRQ_LINE of m_maincpu
    firq_line,        \* M6809_FIRQ_LINE of m_maincpu
    snd_ctrl,         \* wpcsnd: control byte received from the core
    snd_data,         \* wpcsnd: data byte received from the core
    snd_reply,        \* wpcsnd: reply register
    snd_avail,        \* wpcsnd: reply semaphore
    bg_data,          \* s11c_bg: data input latch
    bg_ctrl,          \* s11c_bg: strobe control line
    alpha_latched,    \* history: raw store as it was at the last frame fire
    irq_fires,        \* history: tick fires since the last IRQ acknowledge
    irq_acked,        \* history: IRQ acknowledged and no tick fire since
    sel,              \* history: last byte written to the bank port, -1 if none
    ram_stored,       \* history: byte last stored at each offset, 0 if none
    frame_fires,      \* history: frame fires since the last machine reset
    last              \* history: the last handler, its inputs and its result

vars == << machine, rom_bytes, m_bankmask, cpubank, fixed, m_ram, memprotect,
           memprotect_mask, alpha, m_digits, m_vblank_count, m_irq_count,
           m_vblank_timer, m_irq_timer, irq_line, firq_line, snd_ctrl, snd_data, snd_reply, snd_avail,
           bg_data, bg_ctrl, alpha_latched, irq_fires, irq_acked, sel, ram_stored,
           frame_fires, last >>

----------------------------------------------------------------------------
(* Bounds of the exploration *)

MaxFrames == 2     \* frame fires explored between two machine resets
MaxFires  == 2     \* the tick-fire history counter saturates here

(* Program constants *)

CLEAR_LINE  == 0
ASSERT_LINE == 1
RamSize     == 12288      \* 0x3000
PageSize    == 16384      \* 0x4000
BankBase    == 65536      \* 0x10000
FixedSize   == 32768      \* 0x8000
BankEntries == 32
NumDigits   == 32
AlphaSize   == 40
FrameWrap   == 65536      \* uint16_t m_vblank_count

----------------------------------------------------------------------------
(* Pure helpers *)

RECURSIVE BitAnd(_, _)
BitAnd(a, b) ==
    IF a = 0 \/ b = 0 THEN 0
    ELSE (a % 2) * (b % 2) + 2 * BitAnd(a \div 2, b \div 2)

Bit(v, n) == (v \div (2 ^ n)) % 2

RECURSIVE SumBits(_, _, _)
SumBits(v, src, k) ==
    IF k > 16 THEN 0
    ELSE Bit(v, src[k]) * (2 ^ (16 - k)) + SumBits(v, src, k + 1)

\* bitswap<16>(val, b15, ..., b0): output bit 16-k is input bit src[k]
bitswap16(v, src) == SumBits(v, src, 1)

\* a segment order that takes input bit 9 twice and input bit 11 never
SegOrder_dup == << 15, 7, 12, 10, 8, 14, 13, 9, 9, 6, 5, 4, 3, 2, 1, 0 >>

\* the bit order passed to bitswap<16> in device_timer
SegOrder == << 15, 7, 12, 10, 8, 14, 13, 9, 11, 6, 5, 4, 3, 2, 1, 0 >>

\* contents of the "maincpu" region: every page has its own bytes
ROM(addr) == ((addr \div PageSize) * 7 + (addr % PageSize)) % 256

\* the bank mask taken as the page count itself
BankMaskOf_pages(bytes) == ((bytes - BankBase) \div PageSize) % 256

\* the bank mask taken from the 32 entries configured
BankMaskOf_entries(bytes) == BankEntries - 1

\* uint8_t m_bankmask = ((bytes - 0x10000) >> 14) - 1
BankMaskOf(bytes) == (((bytes - BankBase) \div PageSize) - 1) % 256

\* codeoff taken as the start of the banked pages
CodeOff_first(bytes) == BankBase

\* uint32_t codeoff = memregion("maincpu")->bytes() - 0x8000
CodeOff(bytes) == bytes - FixedSize

\* byte seen through the 0x4000-0x7fff window with the given entry selected
BankByte(entry, o) == ROM(BankBase + entry * PageSize + o)

\* the wpcsnd board and its reply callback present in both configurations
m_wpcsnd_both == TRUE

m_wpcsnd == machine = "wpc_an"
m_bg     == machine = "wpc_an_dd"

\* history record: the handler; a: its offset or index (for wpc_irq_w the
\* tick fires before it, for wpcsnd_reply_w and a strobe write the level
\* before it, for machine_reset the bank entry before it, for a tick fire
\* 1 when the line was acknowledged since the fire before); d: the data or line state passed; r: the byte returned (for
\* ram_w the byte stored before, for an acknowledge the level before, for
\* wpcsnd_reply_w the reply byte, for a frame fire cell 0 before it); e: the
\* strobe levels driven
Did(op, a, d, r) == [op |-> op, a |-> a, d |-> d, r |-> r, e |-> << >>]

cfgv  == << machine, rom_bytes, m_bankmask, fixed >>
protv == << memprotect, memprotect_mask >>
dispv == << alpha, m_digits, alpha_latched >>
cntv  == << m_vblank_count, m_irq_count, frame_fires >>
timv  == << m_vblank_timer, m_irq_timer >>
irqv  == << irq_line, irq_fires, irq_acked >>
sndv  == << snd_ctrl, snd_data, snd_reply, snd_avail >>
bgv   == << bg_data, bg_ctrl >>
bankv == << cpubank, sel >>
ramv  == << m_ram, ram_stored >>

----------------------------------------------------------------------------
(* emu_timer as far as the driver uses it; a period of 0 is "never" *)

\* emu_timer::adjust(start_delay, param, period)
timer_adjust(start_hz, period_hz) == [enabled |-> TRUE, period |-> period_hz]

\* a timer that has fired is scheduled again when it has a period
timer_fired(t) == [t EXCEPT !.enabled = (t.period # 0)]

\* m_vblank_timer->adjust(attotime::from_hz(60),0,attotime::from_hz(60))
VblankTimerArmed == timer_adjust(60, 60)

\* the tick timer armed without a period
IrqTimerArmed_oneshot == timer_adjust(976, 0)

\* m_irq_timer->adjust(attotime::from_hz(976),0,attotime::from_hz(976))
IrqTimerArmed == timer_adjust(976, 976)

----------------------------------------------------------------------------
(* Configuration: wpc_an / wpc_an_dd, init_wpc_an and the first reset *)

Init(I) ==
    /\ machine \in I.machines
    /\ rom_bytes \in I.romSizes
    /\ m_bankmask = BankMaskOf(rom_bytes)
    /\ cpubank = 0
    /\ fixed = [o \in I.fixedOffs |-> ROM(CodeOff(rom_bytes) + o)]
    /\ m_ram = [o \in I.ramOffs |-> 0]
    /\ memprotect = FALSE
    /\ memprotect_mask = 0
    /\ alpha \in I.rawStores
    /\ m_digits = [x \in 0 .. NumDigits - 1 |-> 0]
    /\ m_vblank_count \in I.frames0
    /\ m_irq_count = 0
    /\ m_vblank_timer = VblankTimerArmed
    /\ m_irq_timer = IrqTimerArmed
    /\ irq_line = CLEAR_LINE
    /\ firq_line = CLEAR_LINE
    /\ snd_ctrl = 0
    /\ snd_data = 0
    /\ snd_reply = 0
    /\ snd_avail = FALSE
    /\ bg_data = 0
    /\ bg_ctrl \in (IF machine = "wpc_an_dd" THEN {0, 1} ELSE {1})
    /\ alpha_latched = [i \in 0 .. AlphaSize - 1 |-> 0]
    /\ irq_fires = 0
    /\ irq_acked = FALSE
    /\ sel = -1
    /\ ram_stored = [o \in I.ramOffs |-> 0]
    /\ frame_fires = m_vblank_count
    /\ last = Did(I.startOp, 0, 0, 0)

----------------------------------------------------------------------------
(* WPC ASIC (machine/wpc.cpp) as far as the driver uses it *)

memprotect_active == memprotect

get_memprotect_mask == memprotect_mask

get_alphanumeric(offset) == IF offset < AlphaSize THEN alpha[offset] ELSE 0

reset_alphanumeric == [i \in 0 .. AlphaSize - 1 |-> 0]

\* the Register File's protection configuration port
set_protection(enabled, mask) ==
    /\ memprotect' = enabled
    /\ memprotect_mask' = mask
    /\ last' = Did("set_protection", mask, IF enabled THEN 1 ELSE 0, 0)
    /\ UNCHANGED << cfgv, timv, bankv, ramv, dispv, cntv, irqv, firq_line, sndv, bgv >>

\* the Register File's decoded alphanumeric output into the raw store
alpha_w(i, v) ==
    /\ alpha' = [alpha EXCEPT ![i] = v]
    /\ last' = Did("alpha_w", i, v, 0)
    /\ UNCHANGED << cfgv, timv, bankv, ramv, protv, m_digits, alpha_latched, cntv,
                    irqv, firq_line, sndv, bgv >>

----------------------------------------------------------------------------
(* Protected RAM *)

\* ram_w taking a mask of 0 as "nothing protected"
WriteTakesEffect_nonzero(offset) ==
    (~memprotect_active) \/ get_memprotect_mask = 0
        \/ (BitAnd(offset, get_memprotect_mask) # get_memprotect_mask)

\* ram_w with && for ||: an unprotected write is dropped
WriteTakesEffect_and(offset) ==
    (~memprotect_active)
        /\ (BitAnd(offset, get_memprotect_mask) # get_memprotect_mask)

\* the condition of ram_w under which the byte is stored
WriteTakesEffect(offset) ==
    (~memprotect_active)
        \/ (BitAnd(offset, get_memprotect_mask) # get_memprotect_mask)

\* ram_w raising FIRQ on a protection violation
ram_w_trap(offset, data) ==
    /\ IF WriteTakesEffect(offset)
          THEN m_ram' = [m_ram EXCEPT ![offset] = data] /\ UNCHANGED firq_line
          ELSE UNCHANGED m_ram /\ firq_line' = ASSERT_LINE
    /\ ram_stored' =
          IF memprotect /\ BitAnd(offset, memprotect_mask) = memprotect_mask
             THEN ram_stored
             ELSE [ram_stored EXCEPT ![offset] = data]
    /\ last' = Did("ram_w", offset, data, m_ram[offset])
    /\ UNCHANGED << cfgv, timv, bankv, protv, dispv, cntv, irqv, sndv, bgv >>

ram_w(offset, data) ==
    /\ IF WriteTakesEffect(offset)
          THEN m_ram' = [m_ram EXCEPT ![offset] = data]
          ELSE UNCHANGED m_ram      \* logerror only
    /\ ram_stored' =
          IF memprotect /\ BitAnd(offset, memprotect_mask) = memprotect_mask
             THEN ram_stored
             ELSE [ram_stored EXCEPT ![offset] = data]
    /\ last' = Did("ram_w", offset, data, m_ram[offset])
    /\ UNCHANGED << cfgv, timv, bankv, protv, dispv, cntv, irqv, firq_line, sndv, bgv >>

\* ram_r applying the protection rule to reads
ram_r_guarded(offset) ==
    /\ last' = Did("ram_r", offset, 0,
                   IF WriteTakesEffect(offset) THEN m_ram[offset] ELSE 0)
    /\ UNCHANGED << cfgv, timv, bankv, ramv, protv, dispv, cntv, irqv, firq_line,
                    sndv, bgv >>

ram_r(offset) ==
    /\ last' = Did("ram_r", offset, 0, m_ram[offset])
    /\ UNCHANGED << cfgv, timv, bankv, ramv, protv, dispv, cntv, irqv, firq_line,
                    sndv, bgv >>

----------------------------------------------------------------------------
(* ROM bank window and fixed ROM *)

\* wpc_rombank_w without the bank mask
wpc_rombank_w_nomask(data) ==
    /\ cpubank' = data
    /\ sel' = data
    /\ last' = Did("wpc_rombank_w", 0, data, 0)
    /\ UNCHANGED << cfgv, timv, ramv, protv, dispv, cntv, irqv, firq_line, sndv, bgv >>

wpc_rombank_w(data) ==
    /\ cpubank' = BitAnd(data, m_bankmask)
    /\ sel' = data
    /\ last' = Did("wpc_rombank_w", 0, data, 0)
    /\ UNCHANGED << cfgv, timv, ramv, protv, dispv, cntv, irqv, firq_line, sndv, bgv >>

\* read through map(0x4000, 0x7fff).bankr("cpubank")
bank_r(offset) ==
    /\ last' = Did("bank_r", offset, 0, BankByte(cpubank, offset))
    /\ UNCHANGED << cfgv, timv, bankv, ramv, protv, dispv, cntv, irqv, firq_line,
                    sndv, bgv >>

\* read through map(0x8000, 0xffff).rom().region("fixed", 0)
fixed_r(offset) ==
    /\ last' = Did("fixed_r", offset, 0, fixed[offset])
    /\ UNCHANGED << cfgv, timv, bankv, ramv, protv, dispv, cntv, irqv, firq_line,
                    sndv, bgv >>

----------------------------------------------------------------------------
(* Timers: device_timer *)

\* device_timer reading the second row from entry 16 + x
DigitOf_row16(x) == bitswap16(get_alphanumeric(x), SegOrder)

\* the digit written to cell x on a frame fire
DigitOf(x) ==
    IF x < 16 THEN bitswap16(get_alphanumeric(x), SegOrder)
              ELSE bitswap16(get_alphanumeric(20 + (x - 16)), SegOrder)

\* the frame counter counting on past 65535
NextFrameCount_nowrap(c) == c + 1

\* m_vblank_count++ on a uint16_t
NextFrameCount(c) == (c + 1) % FrameWrap

\* frame counts at which a specification may start
FrameStarts == {0, FrameWrap - 2}

\* the frame fires followed: MaxFrames from a start and from every reset
FrameExplored ==
    \E b \in FrameStarts : b <= frame_fires /\ frame_fires < b + MaxFrames

\* a frame fire that leaves the raw store as it is
TimerVblank_noclear ==
    /\ FrameExplored
    /\ m_vblank_timer.enabled
    /\ m_vblank_timer' = timer_fired(m_vblank_timer)
    /\ m_digits' = [x \in 0 .. NumDigits - 1 |-> DigitOf(x)]
    /\ alpha' = alpha
    /\ m_vblank_count' = NextFrameCount(m_vblank_count)
    /\ frame_fires' = frame_fires + 1
    /\ alpha_latched' = alpha
    /\ last' = Did("TIMER_VBLANK", 0, 0, m_digits[0])
    /\ UNCHANGED << cfgv, m_irq_timer, bankv, ramv, protv, m_irq_count, irqv,
                    firq_line, sndv, bgv >>

\* the TIMER_VBLANK case of device_timer, followed for MaxFrames frames
TimerVblank ==
    /\ FrameExplored
    /\ m_vblank_timer.enabled
    /\ m_vblank_timer' = timer_fired(m_vblank_timer)
    /\ m_digits' = [x \in 0 .. NumDigits - 1 |-> DigitOf(x)]
    /\ alpha' = reset_alphanumeric
    /\ m_vblank_count' = NextFrameCount(m_vblank_count)
    /\ frame_fires' = frame_fires + 1
    /\ alpha_latched' = alpha
    /\ last' = Did("TIMER_VBLANK", 0, 0, m_digits[0])
    /\ UNCHANGED << cfgv, m_irq_timer, bankv, ramv, protv, m_irq_count, irqv,
                    firq_line, sndv, bgv >>

\* a tick fire that also puts the bank window back on entry 0
TimerIrq_rebank ==
    /\ m_irq_timer.enabled
    /\ m_irq_timer' = timer_fired(m_irq_timer)
    /\ irq_line' = ASSERT_LINE
    /\ irq_fires' = IF irq_fires < MaxFires THEN irq_fires + 1 ELSE irq_fires
    /\ irq_acked' = FALSE
    /\ cpubank' = 0
    /\ last' = Did("TIMER_IRQ", IF irq_acked THEN 1 ELSE 0, 0, 0)
    /\ UNCHANGED << cfgv, m_vblank_timer, sel, ramv, protv, dispv, cntv,
                    firq_line, sndv, bgv >>

\* a tick fire that is lost while the line has just been acknowledged
TimerIrq_lost ==
    /\ m_irq_timer.enabled
    /\ m_irq_timer' = timer_fired(m_irq_timer)
    /\ irq_line' = IF irq_acked THEN irq_line ELSE ASSERT_LINE
    /\ irq_fires' = IF irq_fires < MaxFires THEN irq_fires + 1 ELSE irq_fires
    /\ irq_acked' = FALSE
    /\ last' = Did("TIMER_IRQ", IF irq_acked THEN 1 ELSE 0, 0, 0)
    /\ UNCHANGED << cfgv, m_vblank_timer, bankv, ramv, protv, dispv, cntv,
                    firq_line, sndv, bgv >>

TimerIrq ==
    /\ m_irq_timer.enabled
    /\ m_irq_timer' = timer_fired(m_irq_timer)
    /\ irq_line' = ASSERT_LINE
    /\ irq_fires' = IF irq_fires < MaxFires THEN irq_fires + 1 ELSE irq_fires
    /\ irq_acked' = FALSE
    /\ last' = Did("TIMER_IRQ", IF irq_acked THEN 1 ELSE 0, 0, 0)
    /\ UNCHANGED << cfgv, m_vblank_timer, bankv, ramv, protv, dispv, cntv,
                    firq_line, sndv, bgv >>

----------------------------------------------------------------------------
(* Interrupt line callbacks *)

\* wpcsnd_reply_w making the line follow the reply signal
ReplyLevel_follow(state) == IF state # 0 THEN ASSERT_LINE ELSE CLEAR_LINE

\* wpcsnd_reply_w that never drives the line
ReplyLevel_none(state) == firq_line

\* the line level wpcsnd_reply_w leaves on M6809_FIRQ_LINE
ReplyLevel(state) == IF state # 0 THEN ASSERT_LINE ELSE firq_line

\* the sound board signals its reply line; on the active edge it has put
\* the byte reply into its reply register
wpcsnd_reply_w(state, reply) ==
    /\ m_wpcsnd
    /\ snd_reply' = IF state # 0 THEN reply ELSE snd_reply
    /\ snd_avail' = IF state # 0 THEN TRUE ELSE snd_avail
    /\ firq_line' = ReplyLevel(state)
    /\ last' = Did("wpcsnd_reply_w", firq_line, state, reply)
    /\ UNCHANGED << cfgv, timv, bankv, ramv, protv, dispv, cntv, irqv, snd_ctrl,
                    snd_data, bgv >>

\* wpc_irq_w acknowledging both interrupt lines
wpc_irq_w_both(state) ==
    /\ irq_line' = CLEAR_LINE
    /\ firq_line' = CLEAR_LINE
    /\ irq_fires' = 0
    /\ irq_acked' = TRUE
    /\ last' = Did("wpc_irq_w", irq_fires, state, irq_line)
    /\ UNCHANGED << cfgv, timv, bankv, ramv, protv, dispv, cntv, sndv, bgv >>

\* wpc_irq_w that looks at the state passed, as wpcsnd_reply_w does
wpc_irq_w_ifstate(state) ==
    /\ irq_line' = IF state # 0 THEN CLEAR_LINE ELSE irq_line
    /\ irq_fires' = 0
    /\ irq_acked' = TRUE
    /\ last' = Did("wpc_irq_w", irq_fires, state, irq_line)
    /\ UNCHANGED << cfgv, timv, bankv, ramv, protv, dispv, cntv, firq_line, sndv, bgv >>

wpc_irq_w(state) ==
    /\ irq_line' = CLEAR_LINE
    /\ irq_fires' = 0
    /\ irq_acked' = TRUE
    /\ last' = Did("wpc_irq_w", irq_fires, state, irq_line)
    /\ UNCHANGED << cfgv, timv, bankv, ramv, protv, dispv, cntv, firq_line, sndv, bgv >>

\* wpc_firq_w that looks at the state passed
wpc_firq_w_ifstate(state) ==
    /\ firq_line' = IF state # 0 THEN CLEAR_LINE ELSE firq_line
    /\ last' = Did("wpc_firq_w", 0, state, firq_line)
    /\ UNCHANGED << cfgv, timv, bankv, ramv, protv, dispv, cntv, irqv, sndv, bgv >>

wpc_firq_w(state) ==
    /\ firq_line' = CLEAR_LINE
    /\ last' = Did("wpc_firq_w", 0, state, firq_line)
    /\ UNCHANGED << cfgv, timv, bankv, ramv, protv, dispv, cntv, irqv, sndv, bgv >>

----------------------------------------------------------------------------
(* Sound devices: wpcsnd (audio/wpcsnd.cpp) and s11c_bg (audio/s11c_bg.cpp) *)

\* wpcsnd_device::ctrl_r and data_r retrieve the board's most recent reply
wpcsnd_ctrl_r == snd_reply

wpcsnd_data_r == snd_reply

\* s11c_bg_device::data_w latches the byte into the board's data input
bg_data_w(bg, data) == [bg EXCEPT !.data = data]

\* s11c_bg_device::ctrl_w drives the strobe control line; the log keeps
\* each level driven with the byte latched at that moment
bg_ctrl_w(bg, level) ==
    [bg EXCEPT !.ctrl = level,
               !.log = Append(@, [level |-> level, data |-> bg.data])]

BgNow == [data |-> bg_data, ctrl |-> bg_ctrl, log |-> << >>]

----------------------------------------------------------------------------
(* Sound link handlers of the driver *)

\* wpc_sound_ctrl_r reading back the s11c_bg data latch
CtrlReadValue_latch == IF m_wpcsnd THEN wpcsnd_ctrl_r ELSE bg_data

\* value returned by wpc_sound_ctrl_r
CtrlReadValue == IF m_wpcsnd THEN wpcsnd_ctrl_r ELSE 0

\* wpc_sound_data_r echoing the byte the core wrote
DataReadValue_echo == IF m_wpcsnd THEN snd_data ELSE 0

\* value returned by wpc_sound_data_r
DataReadValue == IF m_wpcsnd THEN wpcsnd_data_r ELSE 0

wpc_sound_ctrl_r ==
    /\ last' = Did("wpc_sound_ctrl_r", 0, 0, CtrlReadValue)
    /\ UNCHANGED << cfgv, timv, bankv, ramv, protv, dispv, cntv, irqv, firq_line,
                    sndv, bgv >>

wpc_sound_data_r ==
    /\ last' = Did("wpc_sound_data_r", 0, 0, DataReadValue)
    /\ snd_avail' = IF m_wpcsnd THEN FALSE ELSE snd_avail
    /\ UNCHANGED << cfgv, timv, bankv, ramv, protv, dispv, cntv, irqv, firq_line,
                    snd_ctrl, snd_data, snd_reply, bgv >>

\* wpc_sound_ctrl_w driving the whole pulse, as wpc_sound_s11_w does
CtrlWriteBg_pulse(data) == bg_ctrl_w(bg_ctrl_w(bg_data_w(BgNow, data), 0), 1)

\* the s11c_bg calls made by wpc_sound_ctrl_w when m_bg is present
CtrlWriteBg(data) == bg_ctrl_w(bg_data_w(BgNow, data), 1)

wpc_sound_ctrl_w(data) ==
    /\ IF m_bg
          THEN /\ bg_data' = CtrlWriteBg(data).data
               /\ bg_ctrl' = CtrlWriteBg(data).ctrl
               /\ last' = [Did("wpc_sound_ctrl_w", bg_ctrl, data, 0)
                              EXCEPT !.e = CtrlWriteBg(data).log]
               /\ UNCHANGED snd_ctrl
          ELSE /\ snd_ctrl' = data
               /\ last' = Did("wpc_sound_ctrl_w", 0, data, 0)
               /\ UNCHANGED bgv
    /\ UNCHANGED << cfgv, timv, bankv, ramv, protv, dispv, cntv, irqv, firq_line,
                    snd_data, snd_reply, snd_avail >>

\* wpc_sound_data_w driving the strobe as wpc_sound_ctrl_w does
DataWriteBg_high(data) == bg_ctrl_w(bg_data_w(BgNow, data), 1)

\* the s11c_bg calls made by wpc_sound_data_w when m_bg is present
DataWriteBg(data) == bg_ctrl_w(bg_data_w(BgNow, data), 0)

wpc_sound_data_w(data) ==
    /\ IF m_bg
          THEN /\ bg_data' = DataWriteBg(data).data
               /\ bg_ctrl' = DataWriteBg(data).ctrl
               /\ last' = [Did("wpc_sound_data_w", bg_ctrl, data, 0)
                              EXCEPT !.e = DataWriteBg(data).log]
               /\ UNCHANGED snd_data
          ELSE /\ snd_data' = data
               /\ last' = Did("wpc_sound_data_w", 0, data, 0)
               /\ UNCHANGED bgv
    /\ UNCHANGED << cfgv, timv, bankv, ramv, protv, dispv, cntv, irqv, firq_line,
                    snd_ctrl, snd_reply, snd_avail >>

\* wpc_sound_s11_w pulsing the strobe before it latches the byte
S11WriteBg_strobefirst(data) ==
    bg_data_w(bg_ctrl_w(bg_ctrl_w(BgNow, 0), 1), data)

\* the s11c_bg calls made by wpc_sound_s11_w when m_bg is present
S11WriteBg(data) == bg_ctrl_w(bg_ctrl_w(bg_data_w(BgNow, data), 0), 1)

wpc_sound_s11_w(data) ==
    /\ IF m_bg
          THEN /\ bg_data' = S11WriteBg(data).data
               /\ bg_ctrl' = S11WriteBg(data).ctrl
               /\ last' = [Did("wpc_sound_s11_w", 0, data, 0)
                              EXCEPT !.e = S11WriteBg(data).log]
          ELSE /\ last' = Did("wpc_sound_s11_w", 0, data, 0)
               /\ UNCHANGED bgv
    /\ UNCHANGED << cfgv, timv, bankv, ramv, protv, dispv, cntv, irqv, firq_line,
                    sndv >>

----------------------------------------------------------------------------
(* Reset *)

\* machine_reset that also blanks the digits
machine_reset_blank ==
    /\ cpubank' = 0
    /\ m_vblank_count' = 0
    /\ m_irq_count' = 0
    /\ frame_fires' = 0
    /\ sel' = -1
    /\ m_digits' = [x \in 0 .. NumDigits - 1 |-> 0]
    /\ last' = Did("machine_reset", cpubank, 0, 0)
    /\ UNCHANGED << cfgv, timv, ramv, protv, alpha, alpha_latched, irqv, firq_line,
                    sndv, bgv >>

\* machine_reset that also clears the RAM, as init_wpc_an does
machine_reset_zero ==
    /\ cpubank' = 0
    /\ m_vblank_count' = 0
    /\ m_irq_count' = 0
    /\ frame_fires' = 0
    /\ sel' = -1
    /\ m_ram' = [o \in DOMAIN m_ram |-> 0]
    /\ last' = Did("machine_reset", cpubank, 0, 0)
    /\ UNCHANGED << cfgv, timv, ram_stored, protv, dispv, irqv, firq_line, sndv, bgv >>

\* machine_reset that leaves the bank entry alone
machine_reset_keepbank ==
    /\ cpubank' = cpubank
    /\ m_vblank_count' = 0
    /\ m_irq_count' = 0
    /\ frame_fires' = 0
    /\ sel' = -1
    /\ last' = Did("machine_reset", cpubank, 0, 0)
    /\ UNCHANGED << cfgv, timv, ramv, protv, dispv, irqv, firq_line, sndv, bgv >>

machine_reset ==
    /\ cpubank' = 0
    /\ m_vblank_count' = 0
    /\ m_irq_count' = 0
    /\ frame_fires' = 0
    /\ sel' = -1
    /\ last' = Did("machine_reset", cpubank, 0, 0)
    /\ UNCHANGED << cfgv, timv, ramv, protv, dispv, irqv, firq_line, sndv, bgv >>

----------------------------------------------------------------------------
(* Address map: wpc_an_map *)

\* wpc_an_map with the plain RAM running up to 0x3fff, over the WPC window
AddrMap_overlap ==
    << [lo |-> 0,     hi |-> 12287, owner |-> "protected_ram"],
       [lo |-> 12288, hi |-> 16383, owner |-> "ram"],
       [lo |-> 16304, hi |-> 16383, owner |-> "wpc"],
       [lo |-> 16384, hi |-> 32767, owner |-> "cpubank"],
       [lo |-> 32768, hi |-> 65535, owner |-> "fixed"] >>

\* the map entries in the order of the source: 0x0000-0x2fff ram_r/ram_w,
\* 0x3000-0x3faf ram(), 0x3fb0-0x3fff m_wpc, 0x4000-0x7fff bankr("cpubank"),
\* 0x8000-0xffff rom().region("fixed", 0)
AddrMap ==
    << [lo |-> 0,     hi |-> 12287, owner |-> "protected_ram"],
       [lo |-> 12288, hi |-> 16303, owner |-> "ram"],
       [lo |-> 16304, hi |-> 16383, owner |-> "wpc"],
       [lo |-> 16384, hi |-> 32767, owner |-> "cpubank"],
       [lo |-> 32768, hi |-> 65535, owner |-> "fixed"] >>

\* the entries an address falls into
Owners(addr) ==
    {i \in 1 .. Len(AddrMap) : AddrMap[i].lo <= addr /\ addr <= AddrMap[i].hi}

FirstOwner(addr) ==
    IF Owners(addr) = {} THEN 0
    ELSE CHOOSE i \in Owners(addr) : \A j \in Owners(addr) : i <= j

\* the CPU issues an address; the history keeps the number of entries it
\* falls into (d) and the first of them (r)
map_lookup(addr) ==
    /\ last' = Did("map", addr, Cardinality(Owners(addr)), FirstOwner(addr))
    /\ UNCHANGED << cfgv, timv, bankv, ramv, protv, dispv, cntv, irqv, firq_line,
                    sndv, bgv >>

----------------------------------------------------------------------------
(* Specifications.  I gives the inputs the environment draws from. *)

Next(I) ==
    \/ \E o \in I.ramOffs, b \in I.ramBytes : ram_w(o, b)
    \/ \E o \in I.ramOffs : ram_r(o)
    \/ \E en \in I.enables, m \in I.masks : set_protection(en, m)
    \/ \E i \in I.alphaIdx, v \in I.alphaVals : alpha_w(i, v)
    \/ \E p \in I.bankData : wpc_rombank_w(p)
    \/ \E o \in I.bankOffs : bank_r(o)
    \/ \E o \in I.fixedOffs : fixed_r(o)
    \/ TimerVblank
    \/ TimerIrq
    \/ \E st \in I.lineStates, r \in I.replyBytes : wpcsnd_reply_w(st, r)
    \/ \E st \in I.lineStates : wpc_irq_w(st)
    \/ \E st \in I.lineStates : wpc_firq_w(st)
    \/ wpc_sound_ctrl_r
    \/ wpc_sound_data_r
    \/ \E b \in I.sndBytes : wpc_sound_ctrl_w(b)
    \/ \E b \in I.sndBytes : wpc_sound_data_w(b)
    \/ \E b \in I.sndBytes : wpc_sound_s11_w(b)
    \/ machine_reset

\* one input per handler, each the value the state already holds: every
\* handler runs, and only the handlers without inputs move the state
Quiet ==
    [ machines   |-> {"wpc_an"},
      romSizes   |-> {196608},
      ramOffs    |-> {2048},
      ramBytes   |-> {0},
      enables    |-> {FALSE},
      masks      |-> {0},
      alphaIdx   |-> {0},
      alphaVals  |-> {0},
      bankData   |-> {0},
      bankOffs   |-> {0},
      fixedOffs  |-> {0},
      lineStates |-> {0},
      replyBytes |-> {0},
      sndBytes   |-> {0},
      rawStores  |-> {[i \in 0 .. AlphaSize - 1 |-> 0]},
      frames0    |-> {0},
      startOp    |-> "init" ]

\* protected RAM: offsets around the mask 0x0800, masks 0 and 0x0800
RamInputs ==
    [Quiet EXCEPT !.ramOffs = {2047, 2048, 12287},
                  !.ramBytes = {0, 165},
                  !.enables = BOOLEAN,
                  !.masks = {0, 2048}]

\* bank window: the three image sizes, bytes beyond every bank mask
BankInputs ==
    [Quiet EXCEPT !.romSizes = {196608, 327680, 589824},
                  !.bankData = {0, 8, 16, 32, 40, 255},
                  !.bankOffs = {0, 16383},
                  !.fixedOffs = {0, 16383, 16384, 32767}]

\* interrupt lines: both machines, both levels of every line callback
LineInputs ==
    [Quiet EXCEPT !.machines = {"wpc_an", "wpc_an_dd"},
                  !.lineStates = {0, 1},
                  !.ramBytes = {0, 165},
                  !.bankData = {0, 1},
                  !.sndBytes = {0, 60}]

\* display: a raw entry shown in the first and one shown in the second half
DisplayInputs ==
    [Quiet EXCEPT !.machines = {"wpc_an", "wpc_an_dd"},
                  !.lineStates = {0, 1},
                  !.alphaIdx = {0, 20},
                  !.alphaVals = {0, 129}]

\* sound link: both machines, core bytes and reply bytes that overlap
SoundInputs ==
    [Quiet EXCEPT !.machines = {"wpc_an", "wpc_an_dd"},
                  !.lineStates = {0, 1},
                  !.replyBytes = {60, 90},
                  !.sndBytes = {60, 61}]

\* frame counter: a machine that has run 65534 frames since its reset
WrapInputs ==
    [Quiet EXCEPT !.frames0 = {FrameWrap - 2},
                  !.startOp = "TIMER_VBLANK"]

\* raw patterns given to the bit permutation: no bit, every single bit,
\* all bits, and two mixed patterns
SwapVals == {0, 65535, 129, 43690} \cup {2 ^ n : n \in 0 .. 15}

\* raw stores as the Register File can have left them before a frame fire:
\* entry 0 and entry 20 written, or only the entries 16..19
SwapStores ==
    {[i \in 0 .. AlphaSize - 1 |->
         IF i = 0 THEN v ELSE IF i = 20 THEN w ELSE 0] : v, w \in SwapVals}
    \cup {[i \in 0 .. AlphaSize - 1 |->
         IF i \in 16 .. 19 THEN 65535 ELSE 0]}

SwapInputs ==
    [Quiet EXCEPT !.rawStores = SwapStores,
                  !.startOp = "alpha_w"]

\* addresses issued to the map: both ends of every 256-byte block, which
\* include both ends of every map entry but 0x3faf/0x3fb0, and those two
MapAddrs ==
    {256 * k : k \in 0 .. 255} \cup {256 * k + 255 : k \in 0 .. 255}
        \cup {16303, 16304}

NextMap == \E a \in MapAddrs : map_lookup(a)

Spec        == Init(Quiet) /\ [][Next(Quiet)]_vars
SpecRam     == Init(RamInputs) /\ [][Next(RamInputs)]_vars
SpecBank    == Init(BankInputs) /\ [][Next(BankInputs)]_vars
SpecLines   == Init(LineInputs) /\ [][Next(LineInputs)]_vars
SpecDisplay == Init(DisplayInputs) /\ [][Next(DisplayInputs)]_vars
SpecSound   == Init(SoundInputs) /\ [][Next(SoundInputs)]_vars
SpecMap     == Init(Quiet) /\ [][NextMap]_vars

SpecWrap    == Init(WrapInputs) /\ [][Next(WrapInputs)]_vars

\* the display path alone: raw-store writes, frame fires and resets
NextSwap ==
    \/ \E i \in SwapInputs.alphaIdx, v \in SwapInputs.alphaVals : alpha_w(i, v)
    \/ TimerVblank
    \/ machine_reset

SpecSwap    == Init(SwapInputs) /\ [][NextSwap]_vars

\* The two timers are periodic: the scheduler fires each of them again and
\* again while it is armed, whatever the CPU does in between.  Every handler
\* may run in between; the frame fire is followed up to MaxFrames.
SpecLive ==
    /\ Init(Quiet)
    /\ [][Next(Quiet)]_vars
    /\ WF_vars(TimerIrq)
    /\ WF_vars(TimerVblank)

----------------------------------------------------------------------------
(* Properties *)

Reads == {"ram_r", "bank_r", "fixed_r", "wpc_sound_ctrl_r", "wpc_sound_data_r"}

Levels(e) == [k \in 1 .. Len(e) |-> e[k].level]

\* C1: a write of b to protected-RAM offset o is dropped (the byte at o
\* stays what it was) when protection is enabled and (o & mask) = mask, and
\* in every other case the byte at o is b afterwards; with mask 0x0800 and
\* protection enabled a write to 0x0800 is dropped and one to 0x07FF stored.
C1_RamWriteRule ==
    last.op = "ram_w" =>
        /\ IF memprotect /\ BitAnd(last.a, memprotect_mask) = memprotect_mask
              THEN m_ram[last.a] = last.r
              ELSE m_ram[last.a] = last.d
        /\ (memprotect /\ memprotect_mask = 2048 /\ last.a = 2048
               => m_ram[2048] = last.r)
        /\ (memprotect /\ memprotect_mask = 2048 /\ last.a = 2047
               => m_ram[2047] = last.d)
        /\ (~memprotect => m_ram[last.a] = last.d)

C1_Witness ==
    /\ last.op = "ram_w"
    /\ memprotect
    /\ memprotect_mask = 2048
    /\ last.a = 2048
    /\ last.d # last.r
    /\ m_ram[2048] = last.r
    /\ m_ram[2047] = 165

\* C2: after a write of p to the bank-select port a bank-window read at
\* offset o returns the image byte of page (p & bank_mask) at o; writing
\* bank_mask + 1 reads as writing 0, and with bank_mask 0x1F writing 40
\* reads as writing 8.
C2_BankRead ==
    (last.op = "bank_r" /\ sel # -1) =>
        /\ last.r = ROM(BankBase + BitAnd(sel, m_bankmask) * PageSize + last.a)
        /\ (sel = m_bankmask + 1 => last.r = ROM(BankBase + last.a))
        /\ (m_bankmask = 31 /\ sel = 40
               => last.r = ROM(BankBase + 8 * PageSize + last.a))

C2_Witness ==
    /\ last.op = "bank_r"
    /\ m_bankmask = 31
    /\ sel = 40
    /\ cpubank = 8
    /\ last.r = ROM(BankBase + 8 * PageSize + last.a)
    /\ last.r # ROM(BankBase + 40 * PageSize + last.a)

\* C3: once the IRQ acknowledge port has been written the IRQ line is clear
\* in every state up to the next tick-timer fire, whatever is read meanwhile.
C3_ClearUntilNextTick == irq_acked => irq_line = CLEAR_LINE

C3_Witness ==
    /\ irq_acked
    /\ last.op \in Reads
    /\ irq_line = CLEAR_LINE
    /\ firq_line = ASSERT_LINE

\* C4 as stated: an acknowledge write clears its line whatever the value,
\* and a line goes from clear to asserted only on a timer fire.
C4_OnlyTimersAssert ==
    [][ /\ (last'.op = "wpc_irq_w" => irq_line' = CLEAR_LINE)
        /\ (last'.op = "wpc_firq_w" => firq_line' = CLEAR_LINE)
        /\ (irq_line = CLEAR_LINE /\ irq_line' = ASSERT_LINE
               => last'.op = "TIMER_IRQ")
        /\ (firq_line = CLEAR_LINE /\ firq_line' = ASSERT_LINE
               => last'.op \in {"TIMER_IRQ", "TIMER_VBLANK"}) ]_vars

\* C4 amended: an acknowledge write clears its line whatever the value; the
\* IRQ line goes from clear to asserted only on a tick-timer fire and the
\* FIRQ line only on an active reply signal of the sound board.
C4_AssertSources ==
    [][ /\ (last'.op = "wpc_irq_w" => irq_line' = CLEAR_LINE)
        /\ (last'.op = "wpc_firq_w" => firq_line' = CLEAR_LINE)
        /\ (irq_line = CLEAR_LINE /\ irq_line' = ASSERT_LINE
               => last'.op = "TIMER_IRQ")
        /\ (firq_line = CLEAR_LINE /\ firq_line' = ASSERT_LINE
               => last'.op = "wpcsnd_reply_w" /\ last'.d # 0) ]_vars

C4_Witness ==
    /\ last.op = "wpc_firq_w"
    /\ last.d = 0
    /\ last.r = ASSERT_LINE
    /\ firq_line = CLEAR_LINE

\* C5: the IRQ line has two states, is clear initially, and is asserted
\* exactly when at least one tick fire happened since the last acknowledge
\* (or since configuration): fires are not counted, one acknowledge clears
\* the line after any number of fires.
C5_IrqTwoStates ==
    /\ irq_line \in {CLEAR_LINE, ASSERT_LINE}
    /\ (last.op = "init" => irq_line = CLEAR_LINE)
    /\ (irq_line = ASSERT_LINE <=> irq_fires >= 1)
    /\ (last.op = "TIMER_IRQ" => irq_line = ASSERT_LINE)
    /\ (last.op = "wpc_irq_w" => irq_line = CLEAR_LINE)

C5_Witness ==
    /\ last.op = "wpc_irq_w"
    /\ last.a >= 2
    /\ last.r = ASSERT_LINE
    /\ irq_line = CLEAR_LINE

\* C6: the 32 display cells show the raw store as it was at the most recent
\* frame fire (cell x the segment-reordered entry x, cell 16 + x entry
\* 20 + x); a raw-store write after that fire shows in no cell.
C6_CellsShowLatched ==
    /\ \A x \in 0 .. 15 :
          /\ m_digits[x] = bitswap16(alpha_latched[x], SegOrder)
          /\ m_digits[16 + x] = bitswap16(alpha_latched[20 + x], SegOrder)
    /\ (alpha_latched[0] = 129 => m_digits[0] = 16385)
    /\ (alpha_latched[20] = 129 => m_digits[16] = 16385)
    /\ (alpha_latched[0] = 0 => m_digits[0] = 0)

C6_Witness ==
    /\ last.op = "alpha_w"
    /\ m_vblank_count >= 1
    /\ alpha_latched[20] = 129
    /\ m_digits[16] = 16385
    /\ alpha[0] = 129
    /\ m_digits[0] = 0

\* C7: a step that changes a display cell is a frame-timer fire.
C7_CellsChangeOnFrame ==
    [][ m_digits' # m_digits => last'.op = "TIMER_VBLANK" ]_vars

C7_Witness ==
    /\ last.op = "machine_reset"
    /\ m_digits[0] = 16385
    /\ alpha[0] = 0
    /\ firq_line = ASSERT_LINE

\* C8: with the wpcsnd board, wpc_sound_data_r and wpc_sound_ctrl_r return
\* the board's reply register, not the byte the core wrote last.
C8_ReadsReturnReply ==
    (m_wpcsnd /\ last.op \in {"wpc_sound_data_r", "wpc_sound_ctrl_r"}) =>
        /\ last.r = snd_reply
        /\ (snd_reply # snd_data => last.r # snd_data)

C8_Witness ==
    /\ m_wpcsnd
    /\ last.op = "wpc_sound_data_r"
    /\ snd_data = 60
    /\ snd_reply = 90
    /\ last.r = 90

\* C9: with the wpcsnd board, right after an active reply signal the FIRQ
\* line is asserted, whatever the state of the core.
C9_ReplyAssertsFirq ==
    (last.op = "wpcsnd_reply_w" /\ last.d # 0) => firq_line = ASSERT_LINE

C9_Witness ==
    /\ last.op = "wpcsnd_reply_w"
    /\ last.d = 1
    /\ last.a = CLEAR_LINE
    /\ firq_line = ASSERT_LINE

\* C10 as stated: with the s11c_bg board, data_write(x) latches x, drives
\* the strobe low and then high, and leaves it high.
C10_DataWritePulses ==
    (m_bg /\ last.op = "wpc_sound_data_w") =>
        /\ bg_data = last.d
        /\ Levels(last.e) = << 0, 1 >>
        /\ bg_ctrl = 1

\* C10 amended: with the s11c_bg board, data_write(x) latches x and then
\* drives the strobe low once; it does not drive it high, so the strobe is
\* low after the write.
C10_DataWriteDrivesLow ==
    (m_bg /\ last.op = "wpc_sound_data_w") =>
        /\ bg_data = last.d
        /\ last.e = << [level |-> 0, data |-> last.d] >>
        /\ bg_ctrl = 0

C10_Witness ==
    /\ m_bg
    /\ last.op = "wpc_sound_data_w"
    /\ last.a = 1
    /\ last.d = 61
    /\ bg_data = 61
    /\ bg_ctrl = 0

\* everything but the history of the last handler
machine_state ==
    << machine, rom_bytes, m_bankmask, cpubank, fixed, m_ram, memprotect,
       memprotect_mask, alpha, m_digits, m_vblank_count, m_irq_count,
       m_vblank_timer, m_irq_timer, irq_line, firq_line, snd_ctrl, snd_data, snd_reply, snd_avail,
       bg_data, bg_ctrl >>

\* C11: with the s11c_bg board, ctrl_write(x) latches x and then drives the
\* strobe high once; it never drives it low.
C11_CtrlWriteTrailingEdge ==
    (m_bg /\ last.op = "wpc_sound_ctrl_w") =>
        /\ bg_data = last.d
        /\ last.e = << [level |-> 1, data |-> last.d] >>
        /\ \A k \in 1 .. Len(last.e) : last.e[k].level # 0
        /\ bg_ctrl = 1

C11_Witness ==
    /\ m_bg
    /\ last.op = "wpc_sound_ctrl_w"
    /\ last.a = 0
    /\ last.d = 61
    /\ bg_data = 61
    /\ bg_ctrl = 1

\* C12: with the s11c_bg board, ctrl_read and data_read return 0 whatever
\* was written before and change nothing of the machine.
C12_LegacyReadsZero ==
    [][ (m_bg /\ last'.op \in {"wpc_sound_ctrl_r", "wpc_sound_data_r"}) =>
            /\ last'.r = 0
            /\ machine_state' = machine_state ]_vars

C12_Witness ==
    /\ m_bg
    /\ last.op = "wpc_sound_ctrl_r"
    /\ bg_data = 61
    /\ bg_ctrl = 1
    /\ last.r = 0

\* C13 as stated: after a machine reset every byte of protected RAM is 0.
C13_ResetZeroesRam ==
    last.op = "machine_reset" => \A o \in DOMAIN m_ram : m_ram[o] = 0

\* C13 amended: protected RAM is all 0 after configuration, and a machine
\* reset leaves every byte of it as it was.
C13_ResetKeepsRam ==
    [][ /\ (last.op = "init" => \A o \in DOMAIN m_ram : m_ram[o] = 0)
        /\ (last'.op = "machine_reset" => m_ram' = m_ram) ]_vars

C13_Witness ==
    /\ last.op = "machine_reset"
    /\ m_ram[2047] = 165
    /\ m_ram[2048] = 0

\* C14: after a machine reset entry 0 is selected whatever was selected
\* before, and a bank-window read made before the next bank-select write
\* returns the byte of page 0.
C14_ResetSelectsPage0 ==
    /\ (last.op = "machine_reset" => cpubank = 0)
    /\ (sel = -1 => cpubank = 0)
    /\ (last.op = "bank_r" /\ sel = -1 => last.r = ROM(BankBase + last.a))

C14_Witness ==
    /\ last.op = "machine_reset"
    /\ last.a = 8
    /\ cpubank = 0
    /\ sel = -1

\* number of 0x4000-byte pages of the whole image
ImagePages == rom_bytes \div PageSize

\* C15: the fixed region holds the last 0x8000 bytes of the image: a read at
\* offset o returns the byte at o of the last page but one when o < 0x4000
\* and the byte at o - 0x4000 of the last page otherwise, in every state,
\* whatever bank was selected and however often the machine was reset.
C15_FixedIsImageTail ==
    /\ \A o \in DOMAIN fixed :
          fixed[o] = IF o < PageSize
                        THEN ROM((ImagePages - 2) * PageSize + o)
                        ELSE ROM((ImagePages - 1) * PageSize + (o - PageSize))
    /\ (last.op = "fixed_r" =>
          last.r = IF last.a < PageSize
                      THEN BankByte(m_bankmask - 1, last.a)
                      ELSE BankByte(m_bankmask, last.a - PageSize))

C15_Witness ==
    /\ last.op = "fixed_r"
    /\ last.a = 16384
    /\ rom_bytes = 589824
    /\ cpubank = 8
    /\ m_vblank_count >= 1
    /\ last.r = ROM(35 * PageSize)

\* the entries of the map follow each other without gap or overlap from
\* 0x0000 to 0xFFFF
MapIsPartition ==
    /\ AddrMap[1].lo = 0
    /\ AddrMap[Len(AddrMap)].hi = 65535
    /\ \A i \in 1 .. Len(AddrMap) : AddrMap[i].lo <= AddrMap[i].hi
    /\ \A i \in 1 .. Len(AddrMap) - 1 : AddrMap[i + 1].lo = AddrMap[i].hi + 1

\* C16 as stated: every address belongs to exactly one range, and its owner
\* is protected RAM, the register window, the bank window or the fixed ROM.
C16_FourOwners ==
    last.op = "map" =>
        /\ last.d = 1
        /\ AddrMap[last.r].owner \in {"protected_ram", "wpc", "cpubank", "fixed"}

\* C16 amended: the ranges do not overlap and cover 0x0000-0xFFFF, every
\* address belongs to exactly one range, and the ranges are five: protected
\* RAM 0x0000-0x2FFF, plain RAM 0x3000-0x3FAF, the register window
\* 0x3FB0-0x3FFF, the bank window 0x4000-0x7FFF, the fixed ROM 0x8000-0xFFFF.
C16_FiveOwners ==
    /\ MapIsPartition
    /\ (last.op = "map" =>
          /\ last.d = 1
          /\ AddrMap[last.r].owner =
                IF last.a <= 12287 THEN "protected_ram"
                ELSE IF last.a <= 16303 THEN "ram"
                ELSE IF last.a <= 16383 THEN "wpc"
                ELSE IF last.a <= 32767 THEN "cpubank"
                ELSE "fixed")

C16_Witness ==
    /\ last.op = "map"
    /\ last.a = 12288
    /\ last.d = 1
    /\ AddrMap[last.r].owner = "ram"

\* C17: a protected-RAM write that the protection rule blocks changes
\* nothing of the machine: no interrupt line, no RAM byte, not the bank
\* selection, not the display.
C17_BlockedWriteIsSilent ==
    [][ ( /\ last'.op = "ram_w"
          /\ memprotect
          /\ BitAnd(last'.a, memprotect_mask) = memprotect_mask )
            => machine_state' = machine_state ]_vars

C17_Witness ==
    /\ last.op = "ram_w"
    /\ memprotect
    /\ memprotect_mask = 0
    /\ last.a = 2047
    /\ last.d = 165
    /\ m_ram[2047] = 0
    /\ irq_line = ASSERT_LINE
    /\ firq_line = CLEAR_LINE

\* C18: a read of protected-RAM offset o returns the byte most recently
\* stored at o by a write that was not blocked (0 when there was none), also
\* while the protection rule matches o, and changes nothing of the machine.
C18_ReadReturnsStored ==
    [][ last'.op = "ram_r" =>
            /\ last'.r = ram_stored[last'.a]
            /\ machine_state' = machine_state ]_vars

C18_Witness ==
    /\ last.op = "ram_r"
    /\ memprotect
    /\ memprotect_mask = 2048
    /\ last.a = 2048
    /\ last.r = 165

\* C19: a frame fire writes into every cell the segment-reordered raw
\* entry (cell x from entry x, cell 16 + x from entry 20 + x), clears the
\* whole raw store and adds one to the frame counter; a frame fire that
\* finds the raw store clear, as the fire right after a frame fire does,
\* leaves all 32 cells 0.
C19_FrameFireEffect ==
    [][ last'.op = "TIMER_VBLANK" =>
            /\ \A x \in 0 .. 15 :
                  /\ m_digits'[x] = bitswap16(alpha[x], SegOrder)
                  /\ m_digits'[16 + x] = bitswap16(alpha[20 + x], SegOrder)
            /\ (alpha[0] = 129 => m_digits'[0] = 16385)
            /\ \A i \in DOMAIN alpha : alpha'[i] = 0
            /\ m_vblank_count' = (m_vblank_count + 1) % 65536
            /\ ((\A i \in DOMAIN alpha : alpha[i] = 0)
                   => \A x \in DOMAIN m_digits : m_digits'[x] = 0)
            /\ (last.op = "TIMER_VBLANK"
                   => \A x \in DOMAIN m_digits : m_digits'[x] = 0) ]_vars

C19_Witness ==
    /\ last.op = "TIMER_VBLANK"
    /\ last.r = 16385
    /\ m_vblank_count = 2
    /\ \A x \in DOMAIN m_digits : m_digits[x] = 0

C21_BankMaskFixed ==
    [][ /\ m_bankmask = ((rom_bytes - BankBase) \div PageSize) - 1
        /\ (rom_bytes = 196608 => m_bankmask = 7)
        /\ (rom_bytes = 327680 => m_bankmask = 15)
        /\ (rom_bytes = 589824 => m_bankmask = 31)
        /\ m_bankmask' = m_bankmask
        /\ rom_bytes' = rom_bytes ]_vars

C21_Witness ==
    /\ rom_bytes = 327680
    /\ m_bankmask = 15
    /\ last.op = "machine_reset"
    /\ last.a = 8

\* C22: a timer fire (tick or frame) changes no RAM byte, not the selected
\* page and not the sound-link state; a RAM access changes neither the
\* selected page nor the sound-link state, and a bank-select write changes
\* neither a RAM byte nor the sound-link state.
C22_SingleWriterPaths ==
    [][ /\ (last'.op \in {"TIMER_IRQ", "TIMER_VBLANK"} =>
               /\ m_ram' = m_ram
               /\ cpubank' = cpubank
               /\ sndv' = sndv
               /\ bgv' = bgv)
        /\ (last'.op \in {"ram_w", "ram_r"} =>
               /\ cpubank' = cpubank
               /\ sndv' = sndv
               /\ bgv' = bgv)
        /\ (last'.op = "wpc_rombank_w" =>
               /\ m_ram' = m_ram
               /\ sndv' = sndv
               /\ bgv' = bgv) ]_vars

C22_Witness ==
    /\ last.op = "TIMER_IRQ"
    /\ cpubank = 1
    /\ m_ram[2048] = 165
    /\ snd_ctrl = 60
    /\ snd_avail

\* C23: the IRQ acknowledge and the tick fire leave the FIRQ line as it is,
\* the FIRQ acknowledge and the reply signal leave the IRQ line as it is, no
\* other step changes either line, and no step changes both.
C23_LinesIndependent ==
    [][ /\ (last'.op \in {"wpc_irq_w", "TIMER_IRQ"} => firq_line' = firq_line)
        /\ (last'.op \in {"wpc_firq_w", "wpcsnd_reply_w"} => irq_line' = irq_line)
        /\ (irq_line' # irq_line => last'.op \in {"wpc_irq_w", "TIMER_IRQ"})
        /\ (firq_line' # firq_line =>
               last'.op \in {"wpc_firq_w", "wpcsnd_reply_w"})
        /\ ~(irq_line' # irq_line /\ firq_line' # firq_line) ]_vars

C23_Witness ==
    /\ last.op = "wpc_irq_w"
    /\ last.r = ASSERT_LINE
    /\ irq_line = CLEAR_LINE
    /\ firq_line = ASSERT_LINE

\* C24: for each image size the selected page is below the image's own
\* count of bank pages, in every state reached by bank writes of any byte
\* and machine resets, so the last byte of the selected page, and every
\* byte a bank-window read addresses, lies inside the image.
C24_PageInsideImage ==
    /\ cpubank >= 0
    /\ cpubank < (rom_bytes - BankBase) \div PageSize
    /\ cpubank < BankEntries
    /\ BankBase + cpubank * PageSize + (PageSize - 1) < rom_bytes
    /\ (last.op = "bank_r" => BankBase + cpubank * PageSize + last.a < rom_bytes)

C24_Witness ==
    /\ rom_bytes = 196608
    /\ sel = 255
    /\ cpubank = 7
    /\ last.op = "bank_r"
    /\ last.a = 16383

\* C25: while protection is enabled with a mask of 0 no step changes a RAM
\* byte: every write to every offset is dropped.
C25_MaskZeroBlocksAll ==
    [][ (memprotect /\ memprotect_mask = 0) => m_ram' = m_ram ]_vars

C25_Witness ==
    /\ last.op = "ram_w"
    /\ memprotect
    /\ memprotect_mask = 0
    /\ last.a = 12287
    /\ last.d = 165
    /\ m_ram[12287] = 0
    /\ m_ram[2048] = 165

\* C26: with the wpcsnd board a reply signal going inactive leaves the FIRQ
\* line as it is, and an asserted FIRQ line stays asserted through every
\* step (sound-port reads and writes, reply-signal changes, every other
\* handler) other than a FIRQ acknowledge.
C26_FirqHeldUntilAck ==
    [][ m_wpcsnd =>
          /\ (last'.op = "wpcsnd_reply_w" /\ last'.d = 0
                 => firq_line' = firq_line)
          /\ (firq_line = ASSERT_LINE /\ last'.op # "wpc_firq_w"
                 => firq_line' = ASSERT_LINE) ]_vars

C26_Witness ==
    /\ m_wpcsnd
    /\ last.op = "wpcsnd_reply_w"
    /\ last.d = 0
    /\ last.a = ASSERT_LINE
    /\ firq_line = ASSERT_LINE
    /\ snd_data = 60

\* C27: in the wpc_an_dd machine (s11c_bg board, no reply callback) the
\* FIRQ line is clear in every reachable state.
C27_LegacyFirqClear == machine = "wpc_an_dd" => firq_line = CLEAR_LINE

C27_Witness ==
    /\ machine = "wpc_an_dd"
    /\ last.op = "wpc_sound_s11_w"
    /\ last.d = 60
    /\ bg_data = 60
    /\ irq_line = ASSERT_LINE
    /\ firq_line = CLEAR_LINE

\* C28: with the s11c_bg board every sound write drives the strobe only
\* after it has latched its byte: each level driven finds the byte of that
\* same write in the latch; the S11 port write drives low, then high, and
\* leaves the strobe high.  With the wpcsnd board the S11 port write changes
\* nothing.
C28_LatchBeforeStrobe ==
    [][ /\ (m_bg /\ last'.op \in {"wpc_sound_ctrl_w", "wpc_sound_data_w",
                                  "wpc_sound_s11_w"} =>
               /\ Len(last'.e) >= 1
               /\ \A k \in 1 .. Len(last'.e) : last'.e[k].data = last'.d
               /\ bg_data' = last'.d)
        /\ (m_bg /\ last'.op = "wpc_sound_s11_w" =>
               /\ Levels(last'.e) = << 0, 1 >>
               /\ bg_ctrl' = 1)
        /\ (m_wpcsnd /\ last'.op = "wpc_sound_s11_w" =>
               machine_state' = machine_state) ]_vars

C28_Witness ==
    /\ m_bg
    /\ last.op = "wpc_sound_s11_w"
    /\ last.d = 61
    /\ Levels(last.e) = << 0, 1 >>
    /\ bg_data = 61
    /\ bg_ctrl = 1

\* C29: the frame counter is the number of frame fires since the last
\* machine reset modulo 65536: a frame fire adds one, going from 65535 to 0,
\* a reset sets it to 0 and no other step changes it; the tick counter is
\* set to 0 by a reset and changed by no timer fire.
C29_FrameCounterWraps ==
    [][ /\ m_vblank_count' \in 0 .. 65535
        /\ m_vblank_count' = frame_fires' % 65536
        /\ (last'.op = "TIMER_VBLANK" =>
               m_vblank_count' = IF m_vblank_count = 65535 THEN 0
                                 ELSE m_vblank_count + 1)
        /\ (last'.op = "machine_reset" =>
               m_vblank_count' = 0 /\ m_irq_count' = 0)
        /\ (last'.op \notin {"TIMER_VBLANK", "machine_reset"} =>
               m_vblank_count' = m_vblank_count)
        /\ (last'.op \in {"TIMER_VBLANK", "TIMER_IRQ"} =>
               m_irq_count' = m_irq_count) ]_vars

C29_Witness ==
    /\ last.op = "TIMER_VBLANK"
    /\ frame_fires = 65536
    /\ m_vblank_count = 0

\* the output bit each input bit goes to, as C30 lists them
ClaimedOutBit ==
    [n \in 0 .. 15 |->
        CASE n = 7 -> 14 [] n = 12 -> 13 [] n = 10 -> 12 [] n = 8 -> 11
          [] n = 14 -> 10 [] n = 13 -> 9 [] n = 9 -> 8 [] n = 11 -> 7
          [] OTHER -> n]

\* raw entry shown in cell x
ClaimedRawOf(x) == IF x < 16 THEN x ELSE 20 + (x - 16)

\* C30: after a frame fire cell x shows raw entry x (x < 16) and cell 16+x
\* raw entry 20+x, each with input bit n at the listed output bit; the
\* listed map is a bijection of the 16 bits, so different raw patterns give
\* different cells, a cell is 0 only when its raw entry is 0, and raw
\* entries 16..19 reach no cell.
C30_CellsArePermutedRaw ==
    /\ {ClaimedOutBit[n] : n \in 0 .. 15} = 0 .. 15
    /\ last.op = "TIMER_VBLANK" =>
          /\ \A x \in 0 .. NumDigits - 1 :
                /\ m_digits[x] \in 0 .. 65535
                /\ \A n \in 0 .. 15 :
                      Bit(m_digits[x], ClaimedOutBit[n])
                          = Bit(alpha_latched[ClaimedRawOf(x)], n)
                /\ (m_digits[x] = 0 <=> alpha_latched[ClaimedRawOf(x)] = 0)
          /\ \A x, y \in 0 .. NumDigits - 1 :
                (alpha_latched[ClaimedRawOf(x)] # alpha_latched[ClaimedRawOf(y)])
                    => m_digits[x] # m_digits[y]
          /\ ((\A x \in 0 .. NumDigits - 1 : alpha_latched[ClaimedRawOf(x)] = 0)
                 => \A x \in 0 .. NumDigits - 1 : m_digits[x] = 0)

C30_Witness ==
    /\ last.op = "TIMER_VBLANK"
    /\ alpha_latched[0] = 128
    /\ m_digits[0] = 16384
    /\ alpha_latched[20] = 4096
    /\ m_digits[16] = 8192

====
